---- MODULE Spec2Model ----
(***************************************************************************)
(* Orchestration of the T5 encoder/decoder model (src/t5/t5_model.rs):     *)
(* T5Model::forward_t, T5ForConditionalGeneration::forward_t and ::encode, *)
(* and the LMHeadModel::forward_t generation adapter with its cache-kind   *)
(* dispatch.  Tensors are shapes plus a symbolic value; the T5Stack and    *)
(* LayerState collaborators are modelled by their call contract.           *)
(***************************************************************************)
EXTENDS Integers, Sequences, FiniteSets, TLC

(* ------------------------------ bounds --------------------------------- *)
MaxSrc == 2
MaxTgt == 2
MaxBatch == 1
MaxFed == 4
NumBranches == 2

(* ---------------------- T5Config (read-only fields) -------------------- *)
d_model == 16
d_kv == 8
num_heads == 2
num_layers == 2
vocab_size == 32

(* ------------------------------ Option --------------------------------- *)
\* Option<T>: None is the empty sequence, Some(x) the one-element sequence.
None == <<>>
Some(x) == <<x>>
is_none(o) == o = <<>>
is_some(o) == o # <<>>
unwrap(o) == o[1]

\* F applied to the value of v, with v computed once.
Bind(v, F(_)) == CHOOSE r \in {F(x) : x \in {v}} : TRUE

(* ------------------------------ tensors -------------------------------- *)
\* A tensor is its shape and a symbolic value (the numeric backend is opaque).
Tensor(shape, val) == [shape |-> shape, val |-> val]

\* Token ids fed to the model, a small part of 0..vocab_size-1.
Tokens == {1, 2}
Batches == 1..MaxBatch

RECURSIVE SeqsOfLen(_, _)
SeqsOfLen(S, n) ==
    IF n = 0 THEN {<<>>}
    ELSE {Append(s, x) : s \in SeqsOfLen(S, n - 1), x \in S}

\* Token-id tensors of shape (batch, n).
IdTensors(b, n) == {Tensor(<<b, n>>, s) : s \in SeqsOfLen(Tokens, n)}

\* Attention masks of shape (batch, n): all positions kept, or the last one padded.
MaskTensors(b, n) ==
    {Tensor(<<b, n>>, [i \in 1..n |-> 1])}
      \cup (IF n > 1 THEN {Tensor(<<b, n>>, [i \in 1..n |-> IF i = n THEN 0 ELSE 1])} ELSE {})

\* nn::Embedding lookup through the shared table: (batch, n) -> (batch, n, d_model).
embedding_forward(ids) ==
    Tensor(<<ids.shape[1], ids.shape[2], d_model>>,
           [i \in 1..Len(ids.val) |-> <<"shared", ids.val[i]>>])

\* Caller-made embeddings of shape (batch, n, d_model) that are no table rows.
EmbedTensors(b, n) == {Tensor(<<b, n, d_model>>, [i \in 1..n |-> <<"custom", i>>])}

\* Tensor::linear(ws, None): projection through the transpose of ws, no bias.
\* ws has shape (vocab_size, d_model), so the last dimension becomes vocab_size.
embeddings_ws == Tensor(<<vocab_size, d_model>>, "shared")
linear(x, ws) ==
    Tensor(<<x.shape[1], x.shape[2], ws.shape[1]>>,
           [op |-> "linear", x |-> x.val, ws |-> ws.val, bias |-> None, scale |-> None])
\* Multiplication of a projected tensor by model_dim.powf(e/2), e = -1 for powf(-0.5).
mul_powf(x, base, e) ==
    Tensor(x.shape, [x.val EXCEPT !.scale = Some(<<base, e>>)])

(* ------------------------------ Result --------------------------------- *)
Ok(x) == [ok |-> TRUE, v |-> x]
Err(e) == [ok |-> FALSE, v |-> e]
ValueError(msg) == <<"ValueError", msg>>

(* ----------------------- LayerState and T5Stack ------------------------ *)
\* LayerState: previously computed key/value projections,
\* shape (batch, heads, past_length, d_kv).
LayerState(b, len, val) == Tensor(<<b, num_heads, len, d_kv>>, val)
past_length(state) == state.shape[3]

\* Dropout is active only when train is set; seed stands for the random mask drawn.
dropout(train, seed) == IF train THEN seed ELSE 0

\* T5Stack::new(p, config, is_decoder, store_cache, output_attentions, output_hidden_states)
T5Stack_new(is_decoder, store_cache, output_attentions, output_hidden_states) ==
    [is_decoder |-> is_decoder, store_cache |-> store_cache,
     output_attentions |-> output_attentions,
     output_hidden_states |-> output_hidden_states]

\* The (self, cross) states of layer l after a decoder pass over embeds.
next_layer_state(l, old, embeds, encoder_hidden_states, drop) ==
    LET b == embeds.shape[1]
        T == embeds.shape[2]
        old_self == IF is_none(old) THEN None ELSE unwrap(old)[l][1]
        old_cross == IF is_none(old) THEN None ELSE unwrap(old)[l][2]
        keys == [i \in 1..T |-> <<l, embeds.val[i], drop>>]
        new_self ==
            IF is_none(old_self) THEN LayerState(b, T, keys)
            ELSE LayerState(b, past_length(unwrap(old_self)) + T,
                            unwrap(old_self).val \o keys)
        new_cross ==
            IF is_some(old_cross) THEN unwrap(old_cross)
            ELSE LayerState(b, unwrap(encoder_hidden_states).shape[2],
                            <<l, unwrap(encoder_hidden_states).val>>)
    IN  <<Some(new_self), Some(new_cross)>>

\* Per-layer diagnostic tensors (all_hidden_states / all_attentions).
per_layer(kind, shape, val) ==
    [l \in 1..num_layers |-> Tensor(shape, [kind |-> kind, layer |-> l, of |-> val])]

\* The output of a stack: hidden state, next cache and the configured diagnostics;
\* key_len is the number of key positions each query position attends over.
StackOutput(stack, hidden_state, next_cache, key_len) ==
    [hidden_state |-> hidden_state,
     next_cache |-> next_cache,
     all_hidden_states |->
         IF stack.output_hidden_states
         THEN Some(per_layer("hidden", hidden_state.shape, hidden_state.val))
         ELSE None,
     all_attentions |->
         IF stack.output_attentions
         THEN Some(per_layer("attention",
                             <<hidden_state.shape[1], num_heads,
                               hidden_state.shape[2], key_len>>,
                             hidden_state.val))
         ELSE None]

\* T5Stack::forward_t(input_ids, attention_mask, encoder_hidden_states,
\*   encoder_attention_mask, input_embeds, embed_tokens, old_layer_states, train)
T5Stack_forward_t(stack, input_ids, attention_mask, encoder_hidden_states, encoder_attention_mask, input_embeds, old_layer_states, train, seed) ==
    IF is_none(input_ids) = is_none(input_embeds)
    THEN Err(ValueError("Only one of input ids or input embeddings may be set"))
    ELSE
    LET embeds == IF is_some(input_ids) THEN embedding_forward(unwrap(input_ids))
                  ELSE unwrap(input_embeds)
        b == embeds.shape[1]
        T == embeds.shape[2]
        drop == dropout(train, seed)
    IN  IF stack.is_decoder
        THEN
          Bind([l \in 1..num_layers |->
                   next_layer_state(l, old_layer_states, embeds,
                                    encoder_hidden_states, drop)],
            LAMBDA states :
          Bind(past_length(unwrap(states[1][1])),
            LAMBDA total :
          Bind([i \in 1..T |->
                   [op |-> "decoder",
                    ctx |-> [l \in 1..num_layers |->
                               SubSeq(unwrap(states[l][1]).val, 1, total - T + i)],
                    cross |-> [l \in 1..num_layers |-> unwrap(states[l][2]).val],
                    encoder_attention_mask |-> encoder_attention_mask,
                    attention_mask |-> attention_mask,
                    drop |-> drop]],
            LAMBDA hidden_val :
              Ok(StackOutput(stack, Tensor(<<b, T, d_model>>, hidden_val),
                             IF stack.store_cache THEN Some(states) ELSE None,
                             total))
          )))
        ELSE
          Bind([i \in 1..T |->
                   [op |-> "encoder", pos |-> i, x |-> embeds.val,
                    attention_mask |-> attention_mask, drop |-> drop]],
            LAMBDA hidden_val :
              Ok(StackOutput(stack, Tensor(<<b, T, d_model>>, hidden_val), None, T)))

(* ------------------------------ call log ------------------------------- *)
\* One entry per stack invocation or logits projection performed by a call.
StackCall(op, encoder_hidden_states, old_layer_states, train, ok) ==
    [op |-> op, encoder_hidden_states |-> encoder_hidden_states,
     old_layer_states |-> old_layer_states, train |-> train, ok |-> ok]
LinearCall == StackCall("linear", None, None, FALSE, TRUE)

\* What a call hands back to its caller: a returned value, a returned Err, or a panic.
Returned(out, log) == [status |-> "ok", out |-> Some(out), err |-> None, log |-> log]
Failed(e, log) == [status |-> "err", out |-> None, err |-> Some(e), log |-> log]
Panicked(e, log) == [status |-> "panic", out |-> None, err |-> Some(e), log |-> log]

(* ------------------------------- T5Model ------------------------------- *)
T5Model_new(output_attentions, output_hidden_states) ==
    [encoder |-> T5Stack_new(FALSE, FALSE, output_attentions, output_hidden_states),
     decoder |-> T5Stack_new(TRUE, TRUE, output_attentions, output_hidden_states),
     embeddings |-> embeddings_ws]

T5ModelOutput(decoder_output, encoder_hidden_state, next_cache, all_decoder_hidden_states, all_decoder_attentions, all_encoder_hidden_states, all_encoder_attentions) ==
    [decoder_output |-> decoder_output,
     encoder_hidden_state |-> encoder_hidden_state,
     next_cache |-> next_cache,
     all_decoder_hidden_states |-> all_decoder_hidden_states,
     all_decoder_attentions |-> all_decoder_attentions,
     all_encoder_hidden_states |-> all_encoder_hidden_states,
     all_encoder_attentions |-> all_encoder_attentions]

\* Faulty variant: a failed decoder stack call is answered with an empty output.
T5Model_forward_t_swallow(self, input_ids, attention_mask, encoder_outputs, decoder_input_ids, decoder_attention_mask, input_embeds, decoder_input_embeds, old_layer_states, train, seed) ==
    Bind(IF is_none(encoder_outputs)
         THEN Some(T5Stack_forward_t(self.encoder, input_ids, attention_mask, None,
                                     None, input_embeds, None, train, seed))
         ELSE None,
      LAMBDA enc_res :
        LET enc_log == IF is_some(enc_res)
                       THEN <<StackCall("encoder", None, None, train,
                                        unwrap(enc_res).ok)>>
                       ELSE <<>>
        IN  IF is_some(enc_res) /\ ~unwrap(enc_res).ok
            THEN Panicked(unwrap(enc_res).v, enc_log)
            ELSE
            LET calc_encoder_outputs ==
                    IF is_some(enc_res) THEN Some(unwrap(enc_res).v) ELSE None
                calc_hidden_states ==
                    IF is_some(calc_encoder_outputs)
                    THEN Some(unwrap(calc_encoder_outputs).hidden_state) ELSE None
                all_encoder_hidden_states ==
                    IF is_some(calc_encoder_outputs)
                    THEN unwrap(calc_encoder_outputs).all_hidden_states ELSE None
                all_encoder_attentions ==
                    IF is_some(calc_encoder_outputs)
                    THEN unwrap(calc_encoder_outputs).all_attentions ELSE None
            IN
            Bind(IF is_some(encoder_outputs) THEN unwrap(encoder_outputs)
                 ELSE unwrap(calc_hidden_states),
              LAMBDA encoder_output :
            Bind(T5Stack_forward_t(self.decoder, decoder_input_ids,
                                   decoder_attention_mask, Some(encoder_output),
                                   attention_mask, decoder_input_embeds,
                                   old_layer_states, train, seed),
              LAMBDA dec_res :
                LET log == Append(enc_log,
                                  StackCall("decoder", Some(encoder_output),
                                            old_layer_states, train, dec_res.ok))
                IN  IF ~dec_res.ok
                    THEN Returned(T5ModelOutput(Tensor(<<0, 0, d_model>>, <<>>),
                                                calc_hidden_states, old_layer_states,
                                                None, None,
                                                all_encoder_hidden_states,
                                                all_encoder_attentions),
                                  log)
                    ELSE Returned(T5ModelOutput(dec_res.v.hidden_state,
                                                calc_hidden_states,
                                                dec_res.v.next_cache,
                                                dec_res.v.all_hidden_states,
                                                dec_res.v.all_attentions,
                                                all_encoder_hidden_states,
                                                all_encoder_attentions),
                                  log))))

\* Faulty variant: the output carries the effective encoder hidden state, supplied or not.
T5Model_forward_t_effective(self, input_ids, attention_mask, encoder_outputs, decoder_input_ids, decoder_attention_mask, input_embeds, decoder_input_embeds, old_layer_states, train, seed) ==
    Bind(IF is_none(encoder_outputs)
         THEN Some(T5Stack_forward_t(self.encoder, input_ids, attention_mask, None,
                                     None, input_embeds, None, train, seed))
         ELSE None,
      LAMBDA enc_res :
        LET enc_log == IF is_some(enc_res)
                       THEN <<StackCall("encoder", None, None, train,
                                        unwrap(enc_res).ok)>>
                       ELSE <<>>
        IN  IF is_some(enc_res) /\ ~unwrap(enc_res).ok
            THEN Panicked(unwrap(enc_res).v, enc_log)
            ELSE
            LET calc_encoder_outputs ==
                    IF is_some(enc_res) THEN Some(unwrap(enc_res).v) ELSE None
                calc_hidden_states ==
                    IF is_some(calc_encoder_outputs)
                    THEN Some(unwrap(calc_encoder_outputs).hidden_state) ELSE None
                all_encoder_hidden_states ==
                    IF is_some(calc_encoder_outputs)
                    THEN unwrap(calc_encoder_outputs).all_hidden_states ELSE None
                all_encoder_attentions ==
                    IF is_some(calc_encoder_outputs)
                    THEN unwrap(calc_encoder_outputs).all_attentions ELSE None
            IN
            Bind(IF is_some(encoder_outputs) THEN unwrap(encoder_outputs)
                 ELSE unwrap(calc_hidden_states),
              LAMBDA encoder_output :
            Bind(T5Stack_forward_t(self.decoder, decoder_input_ids,
                                   decoder_attention_mask, Some(encoder_output),
                                   attention_mask, decoder_input_embeds,
                                   old_layer_states, train, seed),
              LAMBDA dec_res :
                LET log == Append(enc_log,
                                  StackCall("decoder", Some(encoder_output),
                                            old_layer_states, train, dec_res.ok))
                IN  IF ~dec_res.ok
                    THEN Panicked(dec_res.v, log)
                    ELSE Returned(T5ModelOutput(dec_res.v.hidden_state,
                                                Some(encoder_output),
                                                dec_res.v.next_cache,
                                                dec_res.v.all_hidden_states,
                                                dec_res.v.all_attentions,
                                                all_encoder_hidden_states,
                                                all_encoder_attentions),
                                  log))))

\* Faulty variant: the decoder stack is run without the incoming layer states.
T5Model_forward_t_no_cache(self, input_ids, attention_mask, encoder_outputs, decoder_input_ids, decoder_attention_mask, input_embeds, decoder_input_embeds, old_layer_states, train, seed) ==
    Bind(IF is_none(encoder_outputs)
         THEN Some(T5Stack_forward_t(self.encoder, input_ids, attention_mask, None,
                                     None, input_embeds, None, train, seed))
         ELSE None,
      LAMBDA enc_res :
        LET enc_log == IF is_some(enc_res)
                       THEN <<StackCall("encoder", None, None, train,
                                        unwrap(enc_res).ok)>>
                       ELSE <<>>
        IN  IF is_some(enc_res) /\ ~unwrap(enc_res).ok
            THEN Panicked(unwrap(enc_res).v, enc_log)
            ELSE
            LET calc_encoder_outputs ==
                    IF is_some(enc_res) THEN Some(unwrap(enc_res).v) ELSE None
                calc_hidden_states ==
                    IF is_some(calc_encoder_outputs)
                    THEN Some(unwrap(calc_encoder_outputs).hidden_state) ELSE None
                all_encoder_hidden_states ==
                    IF is_some(calc_encoder_outputs)
                    THEN unwrap(calc_encoder_outputs).all_hidden_states ELSE None
                all_encoder_attentions ==
                    IF is_some(calc_encoder_outputs)
                    THEN unwrap(calc_encoder_outputs).all_attentions ELSE None
            IN
            Bind(IF is_some(encoder_outputs) THEN unwrap(encoder_outputs)
                 ELSE unwrap(calc_hidden_states),
              LAMBDA encoder_output :
            Bind(T5Stack_forward_t(self.decoder, decoder_input_ids,
                                   decoder_attention_mask, Some(encoder_output),
                                   attention_mask, decoder_input_embeds,
                                   None, train, seed),
              LAMBDA dec_res :
                LET log == Append(enc_log,
                                  StackCall("decoder", Some(encoder_output),
                                            old_layer_states, train, dec_res.ok))
                IN  IF ~dec_res.ok
                    THEN Panicked(dec_res.v, log)
                    ELSE Returned(T5ModelOutput(dec_res.v.hidden_state,
                                                calc_hidden_states,
                                                dec_res.v.next_cache,
                                                dec_res.v.all_hidden_states,
                                                dec_res.v.all_attentions,
                                                all_encoder_hidden_states,
                                                all_encoder_attentions),
                                  log))))

\* Faulty variant: the encoder stack is run whenever source tokens are given, a
\* precomputed encoder output notwithstanding.
T5Model_forward_t_reencode(self, input_ids, attention_mask, encoder_outputs, decoder_input_ids, decoder_attention_mask, input_embeds, decoder_input_embeds, old_layer_states, train, seed) ==
    Bind(IF is_none(encoder_outputs) \/ is_some(input_ids)
         THEN Some(T5Stack_forward_t(self.encoder, input_ids, attention_mask, None,
                                     None, input_embeds, None, train, seed))
         ELSE None,
      LAMBDA enc_res :
        LET enc_log == IF is_some(enc_res)
                       THEN <<StackCall("encoder", None, None, train,
                                        unwrap(enc_res).ok)>>
                       ELSE <<>>
        IN  IF is_some(enc_res) /\ ~unwrap(enc_res).ok
            THEN Panicked(unwrap(enc_res).v, enc_log)
            ELSE
            LET calc_encoder_outputs ==
                    IF is_some(enc_res) THEN Some(unwrap(enc_res).v) ELSE None
                calc_hidden_states ==
                    IF is_some(calc_encoder_outputs)
                    THEN Some(unwrap(calc_encoder_outputs).hidden_state) ELSE None
                all_encoder_hidden_states ==
                    IF is_some(calc_encoder_outputs)
                    THEN unwrap(calc_encoder_outputs).all_hidden_states ELSE None
                all_encoder_attentions ==
                    IF is_some(calc_encoder_outputs)
                    THEN unwrap(calc_encoder_outputs).all_attentions ELSE None
            IN
            Bind(IF is_some(encoder_outputs) THEN unwrap(encoder_outputs)
                 ELSE unwrap(calc_hidden_states),
              LAMBDA encoder_output :
            Bind(T5Stack_forward_t(self.decoder, decoder_input_ids,
                                   decoder_attention_mask, Some(encoder_output),
                                   attention_mask, decoder_input_embeds,
                                   old_layer_states, train, seed),
              LAMBDA dec_res :
                LET log == Append(enc_log,
                                  StackCall("decoder", Some(encoder_output),
                                            old_layer_states, train, dec_res.ok))
                IN  IF ~dec_res.ok
                    THEN Panicked(dec_res.v, log)
                    ELSE Returned(T5ModelOutput(dec_res.v.hidden_state,
                                                calc_hidden_states,
                                                dec_res.v.next_cache,
                                                dec_res.v.all_hidden_states,
                                                dec_res.v.all_attentions,
                                                all_encoder_hidden_states,
                                                all_encoder_attentions),
                                  log))))

T5Model_forward_t(self, input_ids, attention_mask, encoder_outputs, decoder_input_ids, decoder_attention_mask, input_embeds, decoder_input_embeds, old_layer_states, train, seed) ==
    Bind(IF is_none(encoder_outputs)
         THEN Some(T5Stack_forward_t(self.encoder, input_ids, attention_mask, None,
                                     None, input_embeds, None, train, seed))
         ELSE None,
      LAMBDA enc_res :
        LET enc_log == IF is_some(enc_res)
                       THEN <<StackCall("encoder", None, None, train,
                                        unwrap(enc_res).ok)>>
                       ELSE <<>>
        IN  IF is_some(enc_res) /\ ~unwrap(enc_res).ok
            THEN Panicked(unwrap(enc_res).v, enc_log)
            ELSE
            LET calc_encoder_outputs ==
                    IF is_some(enc_res) THEN Some(unwrap(enc_res).v) ELSE None
                calc_hidden_states ==
                    IF is_some(calc_encoder_outputs)
                    THEN Some(unwrap(calc_encoder_outputs).hidden_state) ELSE None
                all_encoder_hidden_states ==
                    IF is_some(calc_encoder_outputs)
                    THEN unwrap(calc_encoder_outputs).all_hidden_states ELSE None
                all_encoder_attentions ==
                    IF is_some(calc_encoder_outputs)
                    THEN unwrap(calc_encoder_outputs).all_attentions ELSE None
            IN
            Bind(IF is_some(encoder_outputs) THEN unwrap(encoder_outputs)
                 ELSE unwrap(calc_hidden_states),
              LAMBDA encoder_output :
            Bind(T5Stack_forward_t(self.decoder, decoder_input_ids,
                                   decoder_attention_mask, Some(encoder_output),
                                   attention_mask, decoder_input_embeds,
                                   old_layer_states, train, seed),
              LAMBDA dec_res :
                LET log == Append(enc_log,
                                  StackCall("decoder", Some(encoder_output),
                                            old_layer_states, train, dec_res.ok))
                IN  IF ~dec_res.ok
                    THEN Panicked(dec_res.v, log)
                    ELSE Returned(T5ModelOutput(dec_res.v.hidden_state,
                                                calc_hidden_states,
                                                dec_res.v.next_cache,
                                                dec_res.v.all_hidden_states,
                                                dec_res.v.all_attentions,
                                                all_encoder_hidden_states,
                                                all_encoder_attentions),
                                  log))))

(* --------------------- T5ForConditionalGeneration ---------------------- *)
T5ForConditionalGeneration_new(output_attentions, output_hidden_states) ==
    [base_model |-> T5Model_new(output_attentions, output_hidden_states),
     model_dim |-> d_model]

\* Faulty variant: the hidden state is scaled but not projected onto the vocabulary.
lm_head_unprojected(self, decoder_output) ==
    Tensor(decoder_output.shape,
           [op |-> "linear", x |-> decoder_output.val, ws |-> None, bias |-> None,
            scale |-> Some(<<self.model_dim, -1>>)])

\* Faulty variant: the projection is returned without the model_dim.powf(-0.5) factor.
lm_head_unscaled(self, decoder_output) ==
    linear(decoder_output, self.base_model.embeddings)

\* decoder_output.linear(&embeddings.ws, None) * model_dim.powf(-0.5)
lm_head(self, decoder_output) ==
    mul_powf(linear(decoder_output, self.base_model.embeddings), self.model_dim, -1)

\* Faulty variant: the output is rebuilt field by field and the encoder hidden state
\* is left out.
T5ForConditionalGeneration_forward_t_rebuilt(self, input_ids, attention_mask, encoder_outputs, decoder_input_ids, decoder_attention_mask, input_embeds, decoder_input_embeds, old_layer_states, train, seed) ==
    Bind(T5Model_forward_t(self.base_model, input_ids, attention_mask,
                           encoder_outputs, decoder_input_ids, decoder_attention_mask,
                           input_embeds, decoder_input_embeds, old_layer_states,
                           train, seed),
      LAMBDA base_model_output :
        IF base_model_output.status # "ok" THEN base_model_output
        ELSE LET out == unwrap(base_model_output.out)
                 lm_logits == lm_head(self, out.decoder_output)
             IN  Returned(T5ModelOutput(lm_logits, None, out.next_cache,
                                        out.all_decoder_hidden_states,
                                        out.all_decoder_attentions,
                                        out.all_encoder_hidden_states,
                                        out.all_encoder_attentions),
                          Append(base_model_output.log, LinearCall)))

T5ForConditionalGeneration_forward_t(self, input_ids, attention_mask, encoder_outputs, decoder_input_ids, decoder_attention_mask, input_embeds, decoder_input_embeds, old_layer_states, train, seed) ==
    Bind(T5Model_forward_t(self.base_model, input_ids, attention_mask,
                           encoder_outputs, decoder_input_ids, decoder_attention_mask,
                           input_embeds, decoder_input_embeds, old_layer_states,
                           train, seed),
      LAMBDA base_model_output :
        IF base_model_output.status # "ok" THEN base_model_output
        ELSE LET out == unwrap(base_model_output.out)
                 lm_logits == lm_head(self, out.decoder_output)
             IN  Returned([out EXCEPT !.decoder_output = lm_logits],
                          Append(base_model_output.log, LinearCall)))

\* Faulty variant: encode leaves the attention mask out of the encoder call.
T5ForConditionalGeneration_encode_unmasked(self, input_ids, attention_mask) ==
    Bind(T5Stack_forward_t(self.base_model.encoder, Some(input_ids),
                           None, None, None, None, None, FALSE, 0),
      LAMBDA res :
        LET log == <<StackCall("encoder", None, None, FALSE, res.ok)>>
        IN  IF ~res.ok THEN Panicked(res.v, log)
            ELSE Returned(res.v.hidden_state, log))

T5ForConditionalGeneration_encode(self, input_ids, attention_mask) ==
    Bind(T5Stack_forward_t(self.base_model.encoder, Some(input_ids),
                           attention_mask, None, None, None, None, FALSE, 0),
      LAMBDA res :
        LET log == <<StackCall("encoder", None, None, FALSE, res.ok)>>
        IN  IF ~res.ok THEN Panicked(res.v, log)
            ELSE Returned(res.v.hidden_state, log))

(* ----------------------- Cache and LMHeadModel ------------------------- *)
\* Cache: tagged variant; T5Cache and BARTCache carry optional per-layer state pairs.
Cache(kind, states) == [kind |-> kind, states |-> states]
Cache_None == Cache("None", None)
T5Cache(states) == Cache("T5Cache", states)
CacheKinds == {"None", "T5Cache", "GPT2Cache", "BARTCache"}

LMModelOutput(lm_logits, cache) == [lm_logits |-> lm_logits, cache |-> cache]

\* Faulty variant: the cache kind is checked only after the model has run.
LMHeadModel_forward_t_late_check(self, input_ids, cache, attention_mask, token_type_ids, position_ids, input_embeds, encoder_outputs, decoder_input_ids, train, seed) ==
    Bind(T5Model_forward_t(self.base_model, input_ids, attention_mask,
                           encoder_outputs, decoder_input_ids, None, None, None,
                           IF cache.kind = "T5Cache" THEN cache.states ELSE None,
                           train, seed),
      LAMBDA base_model_output :
        IF cache.kind \notin {"T5Cache", "None"}
        THEN Failed(ValueError("Cache not compatible with T5 Model"),
                    base_model_output.log)
        ELSE IF base_model_output.status # "ok" THEN base_model_output
        ELSE LET out == unwrap(base_model_output.out)
                 lm_logits == lm_head(self, out.decoder_output)
             IN  Returned(LMModelOutput(lm_logits, T5Cache(out.next_cache)),
                          Append(base_model_output.log, LinearCall)))

\* Faulty variant: any cache that is not a T5 cache is treated like Cache::None.
LMHeadModel_forward_t_fallback(self, input_ids, cache, attention_mask, token_type_ids, position_ids, input_embeds, encoder_outputs, decoder_input_ids, train, seed) ==
    Bind(T5Model_forward_t(self.base_model, input_ids, attention_mask,
                           encoder_outputs, decoder_input_ids, None, None, None,
                           IF cache.kind = "T5Cache" THEN cache.states ELSE None,
                           train, seed),
      LAMBDA base_model_output :
        IF base_model_output.status # "ok" THEN base_model_output
        ELSE LET out == unwrap(base_model_output.out)
                 lm_logits == lm_head(self, out.decoder_output)
             IN  Returned(LMModelOutput(lm_logits, T5Cache(out.next_cache)),
                          Append(base_model_output.log, LinearCall)))

\* Faulty variant: the Cache::None arm drops the source attention mask.
LMHeadModel_forward_t_none_arm(self, input_ids, cache, attention_mask, token_type_ids, position_ids, input_embeds, encoder_outputs, decoder_input_ids, train, seed) ==
    IF cache.kind \notin {"T5Cache", "None"}
    THEN Failed(ValueError("Cache not compatible with T5 Model"), <<>>)
    ELSE
    Bind(IF cache.kind = "T5Cache"
         THEN T5Model_forward_t(self.base_model, input_ids, attention_mask,
                                encoder_outputs, decoder_input_ids, None, None, None,
                                cache.states, train, seed)
         ELSE T5Model_forward_t(self.base_model, input_ids, None,
                                encoder_outputs, decoder_input_ids, None, None, None,
                                None, train, seed),
      LAMBDA base_model_output :
        IF base_model_output.status # "ok" THEN base_model_output
        ELSE LET out == unwrap(base_model_output.out)
                 lm_logits == lm_head(self, out.decoder_output)
             IN  Returned(LMModelOutput(lm_logits, T5Cache(out.next_cache)),
                          Append(base_model_output.log, LinearCall)))

\* Faulty variant: the returned layer states are wrapped as a BART cache.
LMHeadModel_forward_t_bart_wrap(self, input_ids, cache, attention_mask, token_type_ids, position_ids, input_embeds, encoder_outputs, decoder_input_ids, train, seed) ==
    IF cache.kind \notin {"T5Cache", "None"}
    THEN Failed(ValueError("Cache not compatible with T5 Model"), <<>>)
    ELSE
    Bind(IF cache.kind = "T5Cache"
         THEN T5Model_forward_t(self.base_model, input_ids, attention_mask,
                                encoder_outputs, decoder_input_ids, None, None, None,
                                cache.states, train, seed)
         ELSE T5Model_forward_t(self.base_model, input_ids, attention_mask,
                                encoder_outputs, decoder_input_ids, None, None, None,
                                None, train, seed),
      LAMBDA base_model_output :
        IF base_model_output.status # "ok" THEN base_model_output
        ELSE LET out == unwrap(base_model_output.out)
                 lm_logits == lm_head(self, out.decoder_output)
             IN  Returned(LMModelOutput(lm_logits, Cache("BARTCache", out.next_cache)),
                          Append(base_model_output.log, LinearCall)))

\* Faulty variant: input_embeds is handed on to the base model.
LMHeadModel_forward_t_use_embeds(self, input_ids, cache, attention_mask, token_type_ids, position_ids, input_embeds, encoder_outputs, decoder_input_ids, train, seed) ==
    IF cache.kind \notin {"T5Cache", "None"}
    THEN Failed(ValueError("Cache not compatible with T5 Model"), <<>>)
    ELSE
    Bind(IF cache.kind = "T5Cache"
         THEN T5Model_forward_t(self.base_model, input_ids, attention_mask,
                                encoder_outputs, decoder_input_ids, None, input_embeds, None,
                                cache.states, train, seed)
         ELSE T5Model_forward_t(self.base_model, input_ids, attention_mask,
                                encoder_outputs, decoder_input_ids, None, input_embeds, None,
                                None, train, seed),
      LAMBDA base_model_output :
        IF base_model_output.status # "ok" THEN base_model_output
        ELSE LET out == unwrap(base_model_output.out)
                 lm_logits == lm_head(self, out.decoder_output)
             IN  Returned(LMModelOutput(lm_logits, T5Cache(out.next_cache)),
                          Append(base_model_output.log, LinearCall)))

\* Faulty variant: the source attention mask is also passed as decoder_attention_mask.
LMHeadModel_forward_t_decoder_mask(self, input_ids, cache, attention_mask, token_type_ids, position_ids, input_embeds, encoder_outputs, decoder_input_ids, train, seed) ==
    IF cache.kind \notin {"T5Cache", "None"}
    THEN Failed(ValueError("Cache not compatible with T5 Model"), <<>>)
    ELSE
    Bind(IF cache.kind = "T5Cache"
         THEN T5Model_forward_t(self.base_model, input_ids, attention_mask,
                                encoder_outputs, decoder_input_ids, attention_mask, None, None,
                                cache.states, train, seed)
         ELSE T5Model_forward_t(self.base_model, input_ids, attention_mask,
                                encoder_outputs, decoder_input_ids, attention_mask, None, None,
                                None, train, seed),
      LAMBDA base_model_output :
        IF base_model_output.status # "ok" THEN base_model_output
        ELSE LET out == unwrap(base_model_output.out)
                 lm_logits == lm_head(self, out.decoder_output)
             IN  Returned(LMModelOutput(lm_logits, T5Cache(out.next_cache)),
                          Append(base_model_output.log, LinearCall)))

\* Faulty variant: the T5Cache arm does not hand the cached layer states on.
LMHeadModel_forward_t_drop_states(self, input_ids, cache, attention_mask, token_type_ids, position_ids, input_embeds, encoder_outputs, decoder_input_ids, train, seed) ==
    IF cache.kind \notin {"T5Cache", "None"}
    THEN Failed(ValueError("Cache not compatible with T5 Model"), <<>>)
    ELSE
    Bind(IF cache.kind = "T5Cache"
         THEN T5Model_forward_t(self.base_model, input_ids, attention_mask,
                                encoder_outputs, decoder_input_ids, None, None, None,
                                None, train, seed)
         ELSE T5Model_forward_t(self.base_model, input_ids, attention_mask,
                                encoder_outputs, decoder_input_ids, None, None, None,
                                None, train, seed),
      LAMBDA base_model_output :
        IF base_model_output.status # "ok" THEN base_model_output
        ELSE LET out == unwrap(base_model_output.out)
                 lm_logits == lm_head(self, out.decoder_output)
             IN  Returned(LMModelOutput(lm_logits, T5Cache(out.next_cache)),
                          Append(base_model_output.log, LinearCall)))

LMHeadModel_forward_t(self, input_ids, cache, attention_mask, token_type_ids, position_ids, input_embeds, encoder_outputs, decoder_input_ids, train, seed) ==
    IF cache.kind \notin {"T5Cache", "None"}
    THEN Failed(ValueError("Cache not compatible with T5 Model"), <<>>)
    ELSE
    Bind(IF cache.kind = "T5Cache"
         THEN T5Model_forward_t(self.base_model, input_ids, attention_mask,
                                encoder_outputs, decoder_input_ids, None, None, None,
                                cache.states, train, seed)
         ELSE T5Model_forward_t(self.base_model, input_ids, attention_mask,
                                encoder_outputs, decoder_input_ids, None, None, None,
                                None, train, seed),
      LAMBDA base_model_output :
        IF base_model_output.status # "ok" THEN base_model_output
        ELSE LET out == unwrap(base_model_output.out)
                 lm_logits == lm_head(self, out.decoder_output)
             IN  Returned(LMModelOutput(lm_logits, T5Cache(out.next_cache)),
                          Append(base_model_output.log, LinearCall)))

(* ------------------------------- inputs -------------------------------- *)
Opt(S) == {None} \cup {Some(x) : x \in S}
Seeds(train) == IF train THEN {1} ELSE {0}
Branches == 1..NumBranches

\* Source token ids of shape (batch, n) handed to a forward call: the sentence whose
\* encoding the caller may hold as a precomputed encoder output.
SourceIds(b, n) == {Tensor(<<b, n>>, [i \in 1..n |-> 1])}

\* A model built with both diagnostic flags off, used to precompute inputs.
PlainModel == T5ForConditionalGeneration_new(FALSE, FALSE)

\* Precomputed encoder outputs a caller can hold: what encode returned for a source.
EncoderOutputs(b, n) ==
    {unwrap(T5ForConditionalGeneration_encode(
                PlainModel, Tensor(<<b, n>>, [i \in 1..n |-> 1]), None).out)}

\* Layer states a caller can hold: the next_cache of an earlier one-token decoder pass.
PrimedStates(b, n) ==
    {unwrap(unwrap(T5Model_forward_t(
                PlainModel.base_model, None, None, Some(e),
                Some(Tensor(<<b, 1>>, <<1>>)), None, None, None, None, FALSE, 0).out)
            .next_cache) : e \in EncoderOutputs(b, n)}

\* Cache values of every variant a generic decoding loop can hand to the adapter.
Caches(b, n) ==
    {Cache_None, Cache("GPT2Cache", None), Cache("BARTCache", None)}
      \cup {T5Cache(st) : st \in Opt(PrimedStates(b, n))}
      \cup {Cache("BARTCache", Some(st)) : st \in PrimedStates(b, n)}

(* ------------------------------- state --------------------------------- *)
VARIABLES
    model,      \* the T5ForConditionalGeneration built by new()
    call,       \* the forward/encode call made by the caller, with its outcome
    source,     \* generation: the source sentence of the session
    enc_out,    \* generation: the encoder output the loop holds, once encoded
    branch      \* generation: per search branch, the cache it owns and what it fed

vars == <<model, call, source, enc_out, branch>>

NoCall == [fn |-> "none", args |-> <<>>, res |-> <<>>]
NoSource == [input_ids |-> None, attention_mask |-> None, train |-> FALSE, cache |-> Cache_None]
\* A search branch: the cache it owns (None once moved into a failed call, or for a
\* free slot), the inputs of its successful steps, and the outcome of its last step.
NewBranch(c) == [cache |-> Some(c), hist |-> <<>>, last |-> <<>>]
FreeSlot == [cache |-> None, hist |-> <<>>, last |-> <<>>]

InitModel ==
    \E oa \in BOOLEAN, ohs \in BOOLEAN :
        model = T5ForConditionalGeneration_new(oa, ohs)

Init ==
    /\ InitModel
    /\ call = NoCall
    /\ source = NoSource
    /\ enc_out = None
    /\ branch = [b \in Branches |-> FreeSlot]

GenUnchanged == UNCHANGED <<model, source, enc_out, branch>>

\* T5Model::forward_t called on the base model.
CallBase ==
    /\ call.fn = "none"
    /\ \E b \in Batches, S \in 1..MaxSrc, T \in 1..MaxTgt, train \in BOOLEAN :
       \E input_ids \in Opt(SourceIds(b, S)),
          attention_mask \in Opt({Tensor(<<b, S>>, [i \in 1..S |-> 1])}),
          encoder_outputs \in Opt(EncoderOutputs(b, S)),
          decoder_input_ids \in Opt(IdTensors(b, T)),
          decoder_attention_mask \in Opt({Tensor(<<b, T>>, [i \in 1..T |-> 1])}),
          input_embeds \in Opt(EmbedTensors(b, S)),
          decoder_input_embeds \in Opt(EmbedTensors(b, T)),
          old_layer_states \in Opt(PrimedStates(b, S)),
          seed \in Seeds(train) :
            call' = [fn |-> "T5Model::forward_t",
                     args |-> [input_ids |-> input_ids,
                               attention_mask |-> attention_mask,
                               encoder_outputs |-> encoder_outputs,
                               decoder_input_ids |-> decoder_input_ids,
                               decoder_attention_mask |-> decoder_attention_mask,
                               input_embeds |-> input_embeds,
                               decoder_input_embeds |-> decoder_input_embeds,
                               old_layer_states |-> old_layer_states,
                               train |-> train, seed |-> seed],
                     res |-> T5Model_forward_t(
                                model.base_model, input_ids, attention_mask,
                                encoder_outputs, decoder_input_ids,
                                decoder_attention_mask, input_embeds,
                                decoder_input_embeds, old_layer_states, train, seed)]
    /\ GenUnchanged

\* T5ForConditionalGeneration::forward_t called on the generation head.
CallHead ==
    /\ call.fn = "none"
    /\ \E b \in Batches, S \in 1..MaxSrc, T \in 1..MaxTgt, train \in BOOLEAN :
       \E input_ids \in Opt(SourceIds(b, S)),
          attention_mask \in Opt({Tensor(<<b, S>>, [i \in 1..S |-> 1])}),
          encoder_outputs \in Opt(EncoderOutputs(b, S)),
          decoder_input_ids \in Opt(IdTensors(b, T)),
          decoder_attention_mask \in Opt({Tensor(<<b, T>>, [i \in 1..T |-> 1])}),
          input_embeds \in Opt(EmbedTensors(b, S)),
          decoder_input_embeds \in Opt(EmbedTensors(b, T)),
          old_layer_states \in Opt(PrimedStates(b, S)),
          seed \in Seeds(train) :
            call' = [fn |-> "T5ForConditionalGeneration::forward_t",
                     args |-> [input_ids |-> input_ids,
                               attention_mask |-> attention_mask,
                               encoder_outputs |-> encoder_outputs,
                               decoder_input_ids |-> decoder_input_ids,
                               decoder_attention_mask |-> decoder_attention_mask,
                               input_embeds |-> input_embeds,
                               decoder_input_embeds |-> decoder_input_embeds,
                               old_layer_states |-> old_layer_states,
                               train |-> train, seed |-> seed],
                     res |-> T5ForConditionalGeneration_forward_t(
                                model, input_ids, attention_mask,
                                encoder_outputs, decoder_input_ids,
                                decoder_attention_mask, input_embeds,
                                decoder_input_embeds, old_layer_states, train, seed)]
    /\ GenUnchanged

\* T5ForConditionalGeneration::encode called to precompute the encoder pass.
CallEncode ==
    /\ call.fn = "none"
    /\ \E b \in Batches, S \in 1..MaxSrc :
       \E input_ids \in IdTensors(b, S), attention_mask \in Opt(MaskTensors(b, S)) :
            call' = [fn |-> "T5ForConditionalGeneration::encode",
                     args |-> [input_ids |-> input_ids,
                               attention_mask |-> attention_mask],
                     res |-> T5ForConditionalGeneration_encode(
                                model, input_ids, attention_mask)]
    /\ GenUnchanged

\* LMHeadModel::forward_t called by a generic decoding loop.
CallAdapter ==
    /\ call.fn = "none"
    /\ \E b \in Batches, S \in 1..MaxSrc, T \in 1..MaxTgt, train \in BOOLEAN :
       \E input_ids \in Opt(SourceIds(b, S)),
          cache \in Caches(b, S),
          attention_mask \in Opt({Tensor(<<b, S>>, [i \in 1..S |-> 1])}),
          token_type_ids \in Opt({Tensor(<<b, S>>, [i \in 1..S |-> 0])}),
          position_ids \in Opt({Tensor(<<b, S>>, [i \in 1..S |-> i])}),
          input_embeds \in Opt(EmbedTensors(b, S)),
          encoder_outputs \in Opt(EncoderOutputs(b, S)),
          decoder_input_ids \in Opt(IdTensors(b, T)),
          seed \in Seeds(train) :
            call' = [fn |-> "LMHeadModel::forward_t",
                     args |-> [input_ids |-> input_ids,
                               cache |-> cache,
                               attention_mask |-> attention_mask,
                               token_type_ids |-> token_type_ids,
                               position_ids |-> position_ids,
                               input_embeds |-> input_embeds,
                               encoder_outputs |-> encoder_outputs,
                               decoder_input_ids |-> decoder_input_ids,
                               train |-> train, seed |-> seed],
                     res |-> LMHeadModel_forward_t(
                                model, input_ids, cache, attention_mask,
                                token_type_ids, position_ids, input_embeds,
                                encoder_outputs, decoder_input_ids, train, seed)]
    /\ GenUnchanged

\* The caller takes the outcome; the model is ready for the next call.
Return ==
    /\ call.fn # "none"
    /\ call' = NoCall
    /\ GenUnchanged

Next == CallBase \/ CallHead \/ CallEncode \/ CallAdapter \/ Return

Spec == Init /\ [][Next]_vars

(* --------------------------- generation loop --------------------------- *)
\* Number of decoder positions a branch has fed so far.
RECURSIVE Fed(_)
Fed(hist) ==
    IF hist = <<>> THEN 0
    ELSE Fed(SubSeq(hist, 1, Len(hist) - 1))
           + unwrap(hist[Len(hist)].decoder_input_ids).shape[2]

\* Decoder positions held by all branches of the session together.
RECURSIVE TotalFed(_)
TotalFed(n) == IF n = 0 THEN 0 ELSE TotalFed(n - 1) + Fed(branch[n].hist)

\* The adapter call of one decode step: the loop passes the encoder output once it
\* holds one and the source tokens otherwise.
StepCall(cache, h) ==
    LMHeadModel_forward_t(model, h.input_ids, cache, source.attention_mask,
                          None, None, None, h.encoder_outputs, h.decoder_input_ids,
                          source.train, h.seed)

\* Source sentences of a decoding session, one per length.
Sources == {Tensor(<<1, S>>, [i \in 1..S |-> 1]) : S \in 1..MaxSrc}

\* A decoding session starts: the generator's model (built with both diagnostic
\* flags off), a source sentence and the cache the loop starts from; the loop
\* runs inference (train = false).
GenInit ==
    /\ model = PlainModel
    /\ call = NoCall
    /\ \E input_ids \in Sources,
          c \in {Cache_None, T5Cache(None), Cache("GPT2Cache", None),
                 Cache("BARTCache", None)} :
       \E attention_mask \in Opt(MaskTensors(1, input_ids.shape[2])) :
            /\ source = [input_ids |-> Some(input_ids),
                         attention_mask |-> attention_mask,
                         train |-> FALSE, cache |-> c]
            /\ branch = [b \in Branches |-> IF b = 1 THEN NewBranch(c) ELSE FreeSlot]
    /\ enc_out = None

\* Before decoding, the loop may precompute the encoder pass with encode and keep
\* the result.
GenEncode ==
    /\ is_none(enc_out)
    /\ \A b \in Branches : branch[b].hist = <<>> /\ branch[b].last = <<>>
    /\ enc_out' = T5ForConditionalGeneration_encode(
                      model, unwrap(source.input_ids), source.attention_mask).out
    /\ UNCHANGED <<model, call, source, branch>>

\* Faulty variant: the layer states are extended in place, so that every branch
\* holding a clone of the same cache sees the step of branch b.
Step_in_place(b) ==
    /\ is_some(branch[b].cache)
    /\ \E n \in 1..MaxTgt, seed \in Seeds(source.train) :
       \E decoder_input_ids \in IdTensors(1, n) :
         /\ TotalFed(NumBranches) + n <= MaxFed
         /\ LET h == [decoder_input_ids |-> Some(decoder_input_ids), seed |-> seed,
                      input_ids |-> IF is_none(enc_out) THEN source.input_ids ELSE None,
                      encoder_outputs |-> enc_out]
            IN  \E res \in {StepCall(unwrap(branch[b].cache), h)} :
                  branch' = [c \in Branches |->
                      IF c = b
                      THEN IF res.status = "ok"
                           THEN [cache |-> Some(unwrap(res.out).cache),
                                 hist |-> Append(branch[b].hist, h),
                                 last |-> res]
                           ELSE [cache |-> None, hist |-> branch[b].hist, last |-> res]
                      ELSE IF res.status = "ok" /\ branch[c].cache = branch[b].cache
                           THEN [branch[c] EXCEPT !.cache = Some(unwrap(res.out).cache)]
                           ELSE branch[c]]
    /\ UNCHANGED <<model, call, source, enc_out>>

\* One decode step of branch b: its cache is moved into LMHeadModel::forward_t and
\* the returned cache takes its place.
Step(b) ==
    /\ is_some(branch[b].cache)
    /\ \E n \in 1..MaxTgt, seed \in Seeds(source.train) :
       \E decoder_input_ids \in IdTensors(1, n) :
         /\ TotalFed(NumBranches) + n <= MaxFed
         /\ LET h == [decoder_input_ids |-> Some(decoder_input_ids), seed |-> seed,
                      input_ids |-> IF is_none(enc_out) THEN source.input_ids ELSE None,
                      encoder_outputs |-> enc_out]
            IN  \E res \in {StepCall(unwrap(branch[b].cache), h)} :
                  branch' = [branch EXCEPT ![b] =
                      IF res.status = "ok"
                      THEN [cache |-> Some(unwrap(res.out).cache),
                            hist |-> Append(branch[b].hist, h),
                            last |-> res]
                      ELSE [cache |-> None, hist |-> branch[b].hist, last |-> res]]
    /\ UNCHANGED <<model, call, source, enc_out>>

\* The search branches: the loop clones the cache of branch b into a free slot c.
Fork(b, c) ==
    /\ b # c
    /\ is_some(branch[b].cache)
    /\ branch[b].hist # <<>>
    /\ branch[c] = FreeSlot
    /\ TotalFed(NumBranches) + Fed(branch[b].hist) <= MaxFed
    /\ branch' = [branch EXCEPT ![c] = branch[b]]
    /\ UNCHANGED <<model, call, source, enc_out>>

GenNext ==
    \/ GenEncode
    \/ \E b \in Branches : Step(b)
    \/ \E b \in Branches, c \in Branches : Fork(b, c)

GenSpec == GenInit /\ [][GenNext]_vars

(* ============================== properties ============================= *)
AdapterCalled == call.fn = "LMHeadModel::forward_t"
BaseCalled == call.fn = "T5Model::forward_t"
HeadCalled == call.fn = "T5ForConditionalGeneration::forward_t"
EncodeCalled == call.fn = "T5ForConditionalGeneration::encode"
Incompatible(cache) == cache.kind \notin {"None", "T5Cache"}
CacheError == ValueError("Cache not compatible with T5 Model")
Ops(log) == [i \in 1..Len(log) |-> log[i].op]

\* C1: every adapter call whose cache is neither None nor a T5 cache returns the
\* ValueError "cache not compatible", whatever the other arguments are; the model
\* is not run with an empty or any other cache instead.
C1_IncompatibleCacheIsValueError ==
    (AdapterCalled /\ Incompatible(call.args.cache)) =>
        /\ call.res.status = "err"
        /\ call.res.err = Some(CacheError)
        /\ \A i \in 1..Len(call.res.log) : call.res.log[i].op # "decoder"

\* A BART cache holding usable layer states, with inputs the model could run on.
C1_Witness ==
    /\ AdapterCalled
    /\ call.args.cache.kind = "BARTCache"
    /\ is_some(call.args.cache.states)
    /\ is_some(call.args.input_ids)
    /\ is_some(call.args.decoder_input_ids)
    /\ call.res.status = "err"

\* C2: with an incompatible cache the adapter returns its error before any encoder
\* stack call, decoder stack call or logits projection, and hands back neither
\* logits nor a cache.
C2_ErrorBeforeAnyComputation ==
    (AdapterCalled /\ Incompatible(call.args.cache)) =>
        /\ call.res.log = <<>>
        /\ call.res.out = None

\* A GPT2 cache passed with no precomputed encoder output, so that running the
\* model would have had to start with the encoder stack.
C2_Witness ==
    /\ AdapterCalled
    /\ call.args.cache.kind = "GPT2Cache"
    /\ is_none(call.args.encoder_outputs)
    /\ is_some(call.args.input_ids)
    /\ call.res.status = "err"
    /\ call.res.log = <<>>

\* C3: a completed base-model or generation-head forward call has
\* encoder_hidden_state = None exactly when encoder_outputs was supplied, whether
\* or not input_ids, input_embeds or layer states were supplied too.
C3_EncoderHiddenStateNoneIffSupplied ==
    ((BaseCalled \/ HeadCalled) /\ call.res.status = "ok") =>
        (is_none(unwrap(call.res.out).encoder_hidden_state)
            <=> is_some(call.args.encoder_outputs))

\* encoder_outputs supplied together with input_ids and a decoder cache.
C3_Witness ==
    /\ HeadCalled
    /\ call.res.status = "ok"
    /\ is_some(call.args.encoder_outputs)
    /\ is_some(call.args.input_ids)
    /\ is_some(call.args.old_layer_states)
    /\ is_none(unwrap(call.res.out).encoder_hidden_state)

\* The forward call of the given entry point on an argument record.
Forward(fn, a) ==
    IF fn = "T5Model::forward_t"
    THEN T5Model_forward_t(model.base_model, a.input_ids, a.attention_mask,
                           a.encoder_outputs, a.decoder_input_ids,
                           a.decoder_attention_mask, a.input_embeds,
                           a.decoder_input_embeds, a.old_layer_states, a.train, a.seed)
    ELSE T5ForConditionalGeneration_forward_t(
                           model, a.input_ids, a.attention_mask,
                           a.encoder_outputs, a.decoder_input_ids,
                           a.decoder_attention_mask, a.input_embeds,
                           a.decoder_input_embeds, a.old_layer_states, a.train, a.seed)
Adapter(a) ==
    LMHeadModel_forward_t(model, a.input_ids, a.cache, a.attention_mask,
                          a.token_type_ids, a.position_ids, a.input_embeds,
                          a.encoder_outputs, a.decoder_input_ids, a.train, a.seed)

\* Source and target sequence lengths of a call, read from its arguments.
SourceLen(a) ==
    IF is_some(a.encoder_outputs) THEN unwrap(a.encoder_outputs).shape[2]
    ELSE IF is_some(a.input_ids) THEN unwrap(a.input_ids).shape[2]
    ELSE unwrap(a.input_embeds).shape[2]
TargetLen(a) == unwrap(a.decoder_input_ids).shape[2]
BatchSize(a) == unwrap(a.decoder_input_ids).shape[1]

\* The layer states of cache c have one (self, cross) pair per decoder layer, with
\* self-attention length t and cross-attention length s.
CacheLengths(c, t, s) ==
    /\ is_some(c)
    /\ Len(unwrap(c)) = num_layers
    /\ \A l \in 1..num_layers :
          /\ is_some(unwrap(c)[l][1])
          /\ is_some(unwrap(c)[l][2])
          /\ past_length(unwrap(unwrap(c)[l][1])) = t
          /\ past_length(unwrap(unwrap(c)[l][2])) = s

\* C6: a forward call without incoming cache over a source of length S and a decoder
\* input of length T returns num_layers cache entries, each with a self-attention
\* state of length T and a cross-attention state of length S, and logits of shape
\* (batch, T, vocab_size).
C6_FirstCallShapes ==
    /\ (HeadCalled /\ call.res.status = "ok" /\ is_none(call.args.old_layer_states)
          /\ is_some(call.args.decoder_input_ids)) =>
            /\ CacheLengths(unwrap(call.res.out).next_cache,
                            TargetLen(call.args), SourceLen(call.args))
            /\ unwrap(call.res.out).decoder_output.shape
                 = <<BatchSize(call.args), TargetLen(call.args), vocab_size>>
    /\ (AdapterCalled /\ call.res.status = "ok" /\ call.args.cache = Cache_None) =>
            /\ unwrap(call.res.out).cache.kind = "T5Cache"
            /\ CacheLengths(unwrap(call.res.out).cache.states,
                            TargetLen(call.args), SourceLen(call.args))
            /\ unwrap(call.res.out).lm_logits.shape
                 = <<BatchSize(call.args), TargetLen(call.args), vocab_size>>

\* A first call whose source and target lengths differ.
C6_Witness ==
    /\ HeadCalled
    /\ call.res.status = "ok"
    /\ is_none(call.args.old_layer_states)
    /\ is_none(call.args.encoder_outputs)
    /\ is_some(call.args.input_ids)
    /\ is_some(call.args.decoder_input_ids)
    /\ SourceLen(call.args) = MaxSrc
    /\ TargetLen(call.args) = 1
    /\ Len(unwrap(unwrap(call.res.out).next_cache)) = num_layers

\* C7: an adapter call with Cache::None and the same call with a T5 cache holding
\* no layer states have the same outcome (logits, returned cache, failure), and
\* both run the decoder stack with no incoming layer states.
C7_NoneEquivalentToEmptyT5Cache ==
    (AdapterCalled /\ call.args.cache \in {Cache_None, T5Cache(None)}) =>
        /\ Adapter([call.args EXCEPT !.cache = Cache_None]) = call.res
        /\ Adapter([call.args EXCEPT !.cache = T5Cache(None)]) = call.res
        /\ \A i \in 1..Len(call.res.log) :
              call.res.log[i].op = "decoder"
                  => is_none(call.res.log[i].old_layer_states)

\* A completed call with an empty T5 cache and a source attention mask.
C7_Witness ==
    /\ AdapterCalled
    /\ call.args.cache = T5Cache(None)
    /\ is_some(call.args.attention_mask)
    /\ call.res.status = "ok"
    /\ unwrap(call.res.out).cache.kind = "T5Cache"

\* C9: a failure of an encoder or decoder stack call ends the top-level call at
\* once as a failure carrying the stack's error: no output is returned, no stack
\* call or projection follows the failed one and none is repeated.
C9_StackFailurePropagates ==
    (call.fn # "none") =>
        \A i \in 1..Len(call.res.log) :
            ~call.res.log[i].ok =>
                /\ call.res.status = "panic"
                /\ call.res.out = None
                /\ is_some(call.res.err)
                /\ unwrap(call.res.err)[1] = "ValueError"
                /\ i = Len(call.res.log)
                /\ \A j \in 1..(i - 1) : call.res.log[j].op # call.res.log[i].op

\* An adapter call with a compatible cache and neither input_ids nor
\* encoder_outputs: the encoder stack fails.
C9_Witness ==
    /\ AdapterCalled
    /\ ~Incompatible(call.args.cache)
    /\ is_none(call.args.input_ids)
    /\ is_none(call.args.encoder_outputs)
    /\ Len(call.res.log) = 1
    /\ ~call.res.log[1].ok
    /\ call.res.status = "panic"

\* The decoder output of the call in `call`, redone with the encoder output
\* precomputed by encode on the same source tokens and attention mask.
EncodeThenForward ==
    LET enc == T5ForConditionalGeneration_encode(
                   model, unwrap(call.args.input_ids), call.args.attention_mask)
    IN  IF enc.status # "ok" THEN enc
        ELSE Forward(call.fn, [call.args EXCEPT !.encoder_outputs = enc.out])
EndToEnd ==
    /\ BaseCalled \/ HeadCalled
    /\ call.res.status = "ok"
    /\ is_some(call.args.input_ids)
    /\ is_none(call.args.input_embeds)
    /\ is_none(call.args.encoder_outputs)
SameDecoderOutput ==
    /\ EncodeThenForward.status = "ok"
    /\ unwrap(EncodeThenForward.out).decoder_output
         = unwrap(call.res.out).decoder_output

\* C10 as claimed: encode followed by a forward call on its result yields the same
\* decoder output as the end-to-end forward call on the same source tokens,
\* attention mask and decoder inputs.
C10_EncodeThenForwardSame == EndToEnd => SameDecoderOutput

\* C10 as amended: the same, for forward calls made with train = false.
C10_EncodeThenForwardSameInference ==
    (EndToEnd /\ ~call.args.train) => SameDecoderOutput

\* An end-to-end inference call with a source attention mask whose decoder output
\* is reproduced through encode.
C10_Witness ==
    /\ EndToEnd
    /\ ~call.args.train
    /\ is_some(call.args.attention_mask)
    /\ SourceLen(call.args) = MaxSrc
    /\ SameDecoderOutput

(* ------------------------ generation properties ------------------------ *)
HasStates(br) ==
    /\ is_some(br.cache)
    /\ unwrap(br.cache).kind = "T5Cache"
    /\ is_some(unwrap(br.cache).states)
SelfState(br, l) == unwrap(unwrap(unwrap(br.cache).states)[l][1])
CrossState(br, l) == unwrap(unwrap(unwrap(br.cache).states)[l][2])
SourceLength == unwrap(source.input_ids).shape[2]

\* C4: every successful adapter call returns its cache as a T5 cache, whether it
\* was given Cache::None or a T5 cache; so a branch that has completed a step and
\* hands the returned cache back never gets the cache-incompatible error.
C4_ReturnedCacheIsT5Cache ==
    \A b \in Branches :
        /\ (branch[b].last # <<>> /\ branch[b].last.status = "ok") =>
              /\ unwrap(branch[b].last.out).cache.kind = "T5Cache"
              /\ branch[b].cache = Some(unwrap(branch[b].last.out).cache)
        /\ (branch[b].hist # <<>>) =>
              /\ branch[b].last.status # "err"
              /\ branch[b].last.err # Some(CacheError)

\* A branch started from Cache::None that has handed its cache back twice.
C4_Witness ==
    \E b \in Branches :
        /\ source.cache = Cache_None
        /\ Len(branch[b].hist) >= 3
        /\ branch[b].last.status = "ok"
        /\ HasStates(branch[b])

\* One decode step of branch b that feeds a single token on top of held states.
OneTokenStep(b) ==
    /\ HasStates(branch[b])
    /\ Len(branch'[b].hist) = Len(branch[b].hist) + 1
    /\ Fed(branch'[b].hist) = Fed(branch[b].hist) + 1

\* C5: in a decoding session (fixed source, fixed encoder output), a step that
\* feeds one new decoder token and the cache of the previous step makes every
\* layer's self-attention state one position longer and leaves every layer's
\* cross-attention state as it was, of the source's length.
C5_SelfGrowsCrossFixed ==
    [][\A b \in Branches :
          OneTokenStep(b) =>
              /\ HasStates(branch'[b])
              /\ \A l \in 1..num_layers :
                    /\ past_length(SelfState(branch'[b], l))
                         = past_length(SelfState(branch[b], l)) + 1
                    /\ CrossState(branch'[b], l) = CrossState(branch[b], l)
                    /\ past_length(CrossState(branch'[b], l)) = SourceLength]_vars

\* A branch after a prompt step and two one-token steps: self-attention length 3
\* or more, cross-attention length that of the source.
C5_Witness ==
    \E b \in Branches :
        /\ HasStates(branch[b])
        /\ Len(branch[b].hist) >= 3
        /\ \A l \in 1..num_layers :
              /\ past_length(SelfState(branch[b], l)) = Fed(branch[b].hist)
              /\ past_length(CrossState(branch[b], l)) = SourceLength
        /\ Fed(branch[b].hist) > SourceLength

\* What a branch holds after the steps of hist when no other branch exists: the
\* adapter calls replayed one after the other from the session's first cache.
RECURSIVE Replay(_)
Replay(hist) ==
    IF hist = <<>> THEN [cache |-> source.cache, last |-> <<>>]
    ELSE Bind(Replay(SubSeq(hist, 1, Len(hist) - 1)),
           LAMBDA prev :
         Bind(StepCall(prev.cache, hist[Len(hist)]),
           LAMBDA res : [cache |-> unwrap(res.out).cache, last |-> res]))

BaseOnSameInputs == Forward("T5Model::forward_t", call.args)

\* hidden projected through the transpose of the shared embedding matrix
\* (vocab_size rows of d_model entries), no bias, times d_model^(-1/2).
ScaledProjection(hidden) ==
    Tensor(<<hidden.shape[1], hidden.shape[2], vocab_size>>,
           [op |-> "linear", x |-> hidden.val, ws |-> "shared", bias |-> None,
            scale |-> Some(<<d_model, -1>>)])

\* C11: the logits a generation-head forward call returns are the decoder hidden
\* state of the base model on the same inputs, projected through the transpose of
\* the shared embedding matrix without bias and multiplied by d_model^(-0.5), for
\* every batch size and decoder sequence length.
C11_LogitsAreScaledProjection ==
    (HeadCalled /\ call.res.status = "ok") =>
        Bind(BaseOnSameInputs,
          LAMBDA base :
            /\ base.status = "ok"
            /\ unwrap(call.res.out).decoder_output
                 = ScaledProjection(unwrap(base.out).decoder_output))

\* Logits of the largest batch and decoder length, carrying the d_model^(-0.5) factor.
C11_Witness ==
    /\ HeadCalled
    /\ call.res.status = "ok"
    /\ is_some(call.args.decoder_input_ids)
    /\ BatchSize(call.args) = MaxBatch
    /\ TargetLen(call.args) = MaxTgt
    /\ unwrap(call.res.out).decoder_output.shape = <<MaxBatch, MaxTgt, vocab_size>>
    /\ unwrap(call.res.out).decoder_output.val.scale = Some(<<d_model, -1>>)
    /\ unwrap(call.res.out).decoder_output.val.bias = None

\* C13: a generation-head forward output differs from the base model's output on
\* the same inputs in decoder_output only: encoder_hidden_state, next_cache and the
\* four diagnostic collections are those of the base model output.
C13_OtherFieldsPassThrough ==
    (HeadCalled /\ call.res.status = "ok") =>
        Bind(BaseOnSameInputs,
          LAMBDA base :
            /\ base.status = "ok"
            /\ [unwrap(call.res.out) EXCEPT !.decoder_output = <<>>]
                 = [unwrap(base.out) EXCEPT !.decoder_output = <<>>]
            /\ unwrap(call.res.out).decoder_output # unwrap(base.out).decoder_output)

\* A head call that ran the encoder with both diagnostic flags on: every passed
\* field holds a value.
C13_Witness ==
    /\ HeadCalled
    /\ call.res.status = "ok"
    /\ is_some(unwrap(call.res.out).encoder_hidden_state)
    /\ is_some(unwrap(call.res.out).next_cache)
    /\ is_some(unwrap(call.res.out).all_decoder_hidden_states)
    /\ is_some(unwrap(call.res.out).all_decoder_attentions)
    /\ is_some(unwrap(call.res.out).all_encoder_hidden_states)
    /\ is_some(unwrap(call.res.out).all_encoder_attentions)


(* --------------------------- stack invocations ------------------------- *)
CountOp(log, op) == Cardinality({i \in 1..Len(log) : log[i].op = op})

\* The encoder stack run on the source inputs of an argument record, without cache.
FreshEncoderPass(a) ==
    T5Stack_forward_t(model.base_model.encoder, a.input_ids, a.attention_mask,
                      None, None, a.input_embeds, None, a.train, a.seed)

\* The encoder stack is invoked once, first and without cache, when encoder_outputs
\* is absent, and not at all when it is supplied.
EncoderOnceIffAbsent ==
    /\ is_none(call.args.encoder_outputs) =>
          /\ CountOp(call.res.log, "encoder") = 1
          /\ call.res.log[1].op = "encoder"
          /\ is_none(call.res.log[1].old_layer_states)
          /\ is_none(call.res.log[1].encoder_hidden_states)
    /\ is_some(call.args.encoder_outputs) =>
          CountOp(call.res.log, "encoder") = 0

\* Every decoder stack invocation of the call is its last stack invocation and
\* runs on the supplied encoder_outputs if given, else on the hidden state the
\* encoder stack has just computed.
DecoderOnEffectiveState ==
    \A i \in 1..Len(call.res.log) :
        call.res.log[i].op = "decoder" =>
            /\ i = Len(call.res.log)
            /\ call.res.log[i].old_layer_states = call.args.old_layer_states
            /\ call.res.log[i].encoder_hidden_states
                 = (IF is_some(call.args.encoder_outputs)
                    THEN call.args.encoder_outputs
                    ELSE Some(FreshEncoderPass(call.args).v.hidden_state))
            /\ (call.res.status = "ok" /\ is_none(call.args.encoder_outputs)) =>
                  call.res.log[i].encoder_hidden_states
                    = unwrap(call.res.out).encoder_hidden_state

EncoderPassFailed ==
    /\ is_none(call.args.encoder_outputs)
    /\ call.res.log # <<>>
    /\ ~call.res.log[1].ok

\* C14 as claimed: in every base-model forward call the encoder stack is invoked
\* once (first, without cache) when encoder_outputs is absent and never when it is
\* supplied, and the decoder stack is invoked exactly once, on the supplied
\* encoder_outputs or else on the freshly computed encoder hidden state.
C14_EncoderOnceDecoderOnce ==
    BaseCalled =>
        /\ EncoderOnceIffAbsent
        /\ CountOp(call.res.log, "decoder") = 1
        /\ DecoderOnEffectiveState

\* C14 as amended: the same, except that a call whose encoder stack invocation
\* fails ends there, without any decoder stack invocation.
C14_EncoderOnceDecoderOnceUnlessEncoderFails ==
    BaseCalled =>
        /\ EncoderOnceIffAbsent
        /\ CountOp(call.res.log, "decoder") = (IF EncoderPassFailed THEN 0 ELSE 1)
        /\ DecoderOnEffectiveState

\* encoder_outputs supplied together with source tokens: the only stack invocation
\* is the decoder's, on the supplied tensor.
C14_Witness ==
    /\ BaseCalled
    /\ call.res.status = "ok"
    /\ is_some(call.args.encoder_outputs)
    /\ is_some(call.args.input_ids)
    /\ Ops(call.res.log) = <<"decoder">>
    /\ call.res.log[1].encoder_hidden_states = call.args.encoder_outputs


(* --------------------------- generation adapter ------------------------ *)
\* The arguments of an adapter call with the three unused arguments left out.
WithoutUnused(a) ==
    [a EXCEPT !.token_type_ids = None, !.position_ids = None, !.input_embeds = None]

\* C15: the outcome of an adapter call (logits and returned cache, or failure) is
\* that of the call with token_type_ids, position_ids and input_embeds all absent;
\* hence any two calls that differ in these three arguments only have the same
\* outcome.
C15_UnusedArgumentsIgnored ==
    AdapterCalled => Adapter(WithoutUnused(call.args)) = call.res

\* A completed call given all three unused arguments, with source tokens for the
\* encoder pass next to input_embeds.
C15_Witness ==
    /\ AdapterCalled
    /\ call.res.status = "ok"
    /\ is_some(call.args.token_type_ids)
    /\ is_some(call.args.position_ids)
    /\ is_some(call.args.input_embeds)
    /\ is_some(call.args.input_ids)
    /\ is_none(call.args.encoder_outputs)
    /\ Ops(call.res.log) = <<"encoder", "decoder", "linear">>

\* The generation head's forward call on the arguments of an adapter call: the layer
\* states are those of the cache, and decoder_attention_mask, input_embeds and
\* decoder_input_embeds are absent.
HeadOnAdapterInputs(a) ==
    T5ForConditionalGeneration_forward_t(
        model, a.input_ids, a.attention_mask, a.encoder_outputs,
        a.decoder_input_ids, None, None, None, a.cache.states, a.train, a.seed)

\* C16: for a cache that is None or a T5 cache, an adapter call returns the logits
\* and, as its next cache, the next_cache of the generation head's forward call on
\* the same input_ids, attention_mask, encoder_outputs, decoder_input_ids, layer
\* states and train flag; when the head's call fails, so does the adapter's.
C16_AdapterRefinesHead ==
    (AdapterCalled /\ ~Incompatible(call.args.cache)) =>
        Bind(HeadOnAdapterInputs(call.args),
          LAMBDA head :
            /\ call.res.status = head.status
            /\ call.res.err = head.err
            /\ call.res.status = "ok" =>
                  /\ unwrap(call.res.out).lm_logits = unwrap(head.out).decoder_output
                  /\ unwrap(call.res.out).cache.states = unwrap(head.out).next_cache)

\* A completed adapter call on a T5 cache holding layer states, with a source
\* attention mask and a precomputed encoder output.
C16_Witness ==
    /\ AdapterCalled
    /\ call.res.status = "ok"
    /\ call.args.cache.kind = "T5Cache"
    /\ is_some(call.args.cache.states)
    /\ is_some(call.args.attention_mask)
    /\ is_some(call.args.encoder_outputs)
    /\ is_some(unwrap(call.res.out).cache.states)


(* ------------------------------ cache drift ---------------------------- *)
\* The logits of one decoder position of a (1, T, vocab_size) logits tensor.
LogitsAt(lm_logits, i) == [lm_logits.val EXCEPT !.x = lm_logits.val.x[i]]

\* A branch that made a first call from the session's empty cache and then one
\* incremental call feeding a single new token on the returned cache.
OneStepIncremental(b) ==
    /\ source.cache \in {Cache_None, T5Cache(None)}
    /\ Len(branch[b].hist) = 2
    /\ TargetLen(branch[b].hist[2]) = 1
    /\ branch[b].last.status = "ok"

\* The first call of branch b, and the call without cache over the sequence that is
\* one token longer: the tokens of the first call followed by the new token.
FirstCall(b) == StepCall(source.cache, branch[b].hist[1])
LongerSequence(b) ==
    LET d1 == unwrap(branch[b].hist[1].decoder_input_ids)
        d2 == unwrap(branch[b].hist[2].decoder_input_ids)
    IN  Tensor(<<d1.shape[1], d1.shape[2] + d2.shape[2]>>, d1.val \o d2.val)
LongerCall(b) ==
    StepCall(Cache_None,
             [branch[b].hist[2] EXCEPT !.decoder_input_ids = Some(LongerSequence(b))])

\* C12: the logits computed with the cache agree with those of a call without
\* cache over the one-token-longer sequence at every position they have in common:
\* the incremental call's logits are those of the last position, and the first
\* call's logits are those of the positions before it.
C12_CacheIntroducesNoDrift ==
    \A b \in Branches :
        OneStepIncremental(b) =>
            Bind(LongerCall(b),
              LAMBDA longer :
            Bind(FirstCall(b),
              LAMBDA first :
                LET n == TargetLen(branch[b].hist[1])
                    incremental == unwrap(branch[b].last.out).lm_logits
                IN  /\ longer.status = "ok"
                    /\ first.status = "ok"
                    /\ unwrap(longer.out).lm_logits.shape = <<1, n + 1, vocab_size>>
                    /\ incremental.shape = <<1, 1, vocab_size>>
                    /\ LogitsAt(incremental, 1)
                         = LogitsAt(unwrap(longer.out).lm_logits, n + 1)
                    /\ \A i \in 1..n :
                          LogitsAt(unwrap(first.out).lm_logits, i)
                            = LogitsAt(unwrap(longer.out).lm_logits, i)))

\* A first call over the longest decoder input followed by a one-token call on the
\* returned cache, every layer's self-attention state covering all the tokens.
C12_Witness ==
    \E b \in Branches :
        /\ OneStepIncremental(b)
        /\ source.cache = Cache_None
        /\ TargetLen(branch[b].hist[1]) = MaxTgt
        /\ HasStates(branch[b])
        /\ \A l \in 1..num_layers :
              past_length(SelfState(branch[b], l)) = MaxTgt + 1

====
